---- MODULE Spec2Model ----
(***************************************************************************)
(* Model of oxc-python: the walk() iterator of src/traversal.rs over node  *)
(* trees built by the conversion functions, and the line-offset table of   *)
(* src/parser.rs.                                                          *)
(***************************************************************************)
EXTENDS Integers, Sequences, FiniteSets, TLC

VARIABLES
  root,          \* the object handed to walk()
  queue,         \* queue[w]: WalkIterator.queue of walker w, a sequence of (node, depth)
  out,           \* out[w]: the (node, depth) pairs walker w has returned so far
  ret,           \* ret[w]: what the last __next__ of walker w returned: "new", "some", "stop"
  stops,         \* stops[w]: number of __next__ calls of walker w that returned None
  source,        \* the source string of the running parse, a sequence of characters
  lineOffsets,   \* the thread-local LINE_OFFSETS: Option<Vec<usize>>
  pc,            \* position of parse(): "idle", "converting", "program"
  lookup,        \* the last compute_line_number call of a conversion: offset and result
  programLines,  \* (start_line, end_line) stored in the Program node
  node,          \* the node object the caller holds: kind, span and stored lines
  access,        \* the last get_text / get_line_range call made on a node
  conv,          \* the conversion loop of parse(): its input, its progress, its result
  scan,          \* extract_comments: its source, its position i, the comments so far
  result         \* the ParseResult the caller holds, and what is_valid returned

vars == <<root, queue, out, ret, stops, source, lineOffsets, pc, lookup, programLines,
          node, access, conv, scan, result>>
walkVars == <<root, queue, out, ret, stops>>
lineVars == <<source, lineOffsets, pc, lookup, programLines>>
nodeVars == <<node, access>>
parseVars == <<scan, result>>

(***************************************************************************)
(* Bounds of the model.                                                    *)
(***************************************************************************)
MaxEndPulls == 2    \* __next__ calls made on an exhausted walker
MaxLen == 3         \* characters of a parsed source

Walkers == {1, 2}

(***************************************************************************)
(* Python objects.  An attribute holds one object or a list of objects.    *)
(* Every node class has a `type` getter; no other object has one.          *)
(***************************************************************************)
One(o) == [k |-> "one", ids |-> <<o>>]
Many(s) == [k |-> "list", ids |-> s]

NONE == 1
STR == 2
INT == 3
BOOL == 4
SPAN == 5

NoAttrs == [a \in {} |-> One(NONE)]
Scalar(c) == [cls |-> c, type |-> "", attrs |-> NoAttrs]

\* Fields every statement, expression and type node carries.
Common == [span |-> One(SPAN), start_line |-> One(INT), end_line |-> One(INT)]
\* JSX nodes, Identifier and Literal carry a span only.
SpanOnly == [span |-> One(SPAN)]

N(t, payload) == [cls |-> "node", type |-> t, attrs |-> payload]

\* The generic node: type, span and lines, no payload.
Generic(t) == N(t, Common)

Identifier == N("Identifier", [name |-> One(STR)] @@ SpanOnly)
JSXIdentifier == N("JSXIdentifier", [name |-> One(STR)] @@ SpanOnly)

Program(body) == N("Program", [body |-> Many(body)] @@ Common)

IfStatement(test, consequent, alternate) ==
  N("IfStatement",
    [test |-> One(test), consequent |-> One(consequent), alternate |-> One(alternate)] @@ Common)

ExpressionStatement(e) == N("ExpressionStatement", [expression |-> One(e)] @@ Common)

SwitchStatement(d, cases) ==
  N("SwitchStatement", [discriminant |-> One(d), cases |-> Many(cases)] @@ Common)

SwitchCase(test, consequent) ==
  N("SwitchCase", [test |-> One(test), consequent |-> Many(consequent)] @@ Common)

BreakStatement(label) == N("BreakStatement", [label |-> One(label)] @@ Common)

FunctionDeclaration(body, params) ==
  N("FunctionDeclaration",
    [name |-> One(STR), is_async |-> One(BOOL), is_generator |-> One(BOOL),
     body |-> One(body), params |-> Many(params),
     type_parameters |-> One(NONE), return_type |-> One(NONE)] @@ Common)

FormalParameter == N("FormalParameter", [name |-> One(STR), type_annotation |-> One(NONE)] @@ Common)

BlockStatement(body) == N("BlockStatement", [body |-> Many(body)] @@ Common)

ReturnStatement(arg) == N("ReturnStatement", [argument |-> One(arg)] @@ Common)

\* extends is Option<Vec<..>>: None when the interface extends nothing.
TSInterfaceDeclaration(body, extends) ==
  N("TSInterfaceDeclaration",
    [name |-> One(STR), body |-> One(body), extends |-> extends,
     type_parameters |-> One(NONE)] @@ Common)

TSInterfaceBody(body) == N("TSInterfaceBody", [body |-> Many(body)] @@ Common)

TSPropertySignature(key, ta) ==
  N("TSPropertySignature",
    [key |-> One(key), optional |-> One(BOOL), readonly |-> One(BOOL),
     type_annotation |-> One(ta)] @@ Common)

TSTypeAnnotation(t) == N("TSTypeAnnotation", [type_annotation |-> One(t)] @@ Common)

TSTypeReference(name) ==
  N("TSTypeReference", [type_name |-> One(name), type_parameters |-> One(NONE)] @@ Common)

VariableDeclaration(decls) ==
  N("VariableDeclaration", [kind |-> One(STR), declarations |-> Many(decls)] @@ Common)

VariableDeclarator(id, init) ==
  N("VariableDeclarator",
    [id |-> One(id), init |-> One(init), type_annotation |-> One(NONE)] @@ Common)

JSXElement(opening, children, closing) ==
  N("JSXElement",
    [opening_element |-> One(opening), children |-> Many(children),
     closing_element |-> One(closing)] @@ SpanOnly)

JSXOpeningElement(name, attributes) ==
  N("JSXOpeningElement",
    [name |-> One(name), attributes |-> Many(attributes), self_closing |-> One(BOOL)] @@ SpanOnly)

JSXClosingElement(name) == N("JSXClosingElement", [name |-> One(name)] @@ SpanOnly)

JSXMemberExpression(object, property) ==
  N("JSXMemberExpression", [object |-> One(object), property |-> One(property)] @@ SpanOnly)

JSXAttribute(name, value) ==
  N("JSXAttribute", [name |-> One(name), value |-> One(value)] @@ SpanOnly)

JSXText == N("JSXText", [value |-> One(STR), raw |-> One(STR)] @@ SpanOnly)

Literal == N("Literal", [value |-> One(STR), raw |-> One(STR)] @@ SpanOnly)

(***************************************************************************)
(* The heap: the trees the conversion functions build for four programs.   *)
(*   10..: if (a) b; else c;  switch (d) { case 1: break; default: }       *)
(*   30..: function f(p) { return 1; }                                     *)
(*   40..: interface I extends A, B { x: T }  interface J {}               *)
(*   60..: const e = <A.B x="1">t</A.B>;                                   *)
(***************************************************************************)
Heap ==
  (NONE :> Scalar("none")) @@ (STR :> Scalar("str")) @@ (INT :> Scalar("int")) @@
  (BOOL :> Scalar("bool")) @@ (SPAN :> Scalar("span")) @@
  (10 :> Program(<<11, 17>>)) @@
  (11 :> IfStatement(12, 13, 15)) @@
  (12 :> Generic("Identifier")) @@
  (13 :> ExpressionStatement(14)) @@
  (14 :> Generic("Identifier")) @@
  (15 :> ExpressionStatement(16)) @@
  (16 :> Generic("Identifier")) @@
  (17 :> SwitchStatement(18, <<19, 22>>)) @@
  (18 :> Generic("Identifier")) @@
  (19 :> SwitchCase(20, <<21>>)) @@
  (20 :> Generic("NumericLiteral")) @@
  (21 :> BreakStatement(NONE)) @@
  (22 :> SwitchCase(NONE, <<>>)) @@
  (30 :> Program(<<31>>)) @@
  (31 :> FunctionDeclaration(33, <<32>>)) @@
  (32 :> FormalParameter) @@
  (33 :> BlockStatement(<<34>>)) @@
  (34 :> ReturnStatement(35)) @@
  (35 :> Generic("NumericLiteral")) @@
  (40 :> Program(<<41, 50>>)) @@
  (41 :> TSInterfaceDeclaration(44, Many(<<42, 43>>))) @@
  (42 :> Generic("TSInterfaceHeritage")) @@
  (43 :> Generic("TSInterfaceHeritage")) @@
  (44 :> TSInterfaceBody(<<45>>)) @@
  (45 :> TSPropertySignature(46, 47)) @@
  (46 :> Identifier) @@
  (47 :> TSTypeAnnotation(48)) @@
  (48 :> TSTypeReference(49)) @@
  (49 :> Identifier) @@
  (50 :> TSInterfaceDeclaration(51, One(NONE))) @@
  (51 :> TSInterfaceBody(<<>>)) @@
  (60 :> Program(<<61>>)) @@
  (61 :> VariableDeclaration(<<62>>)) @@
  (62 :> VariableDeclarator(63, 64)) @@
  (63 :> Identifier) @@
  (64 :> JSXElement(65, <<71>>, 72)) @@
  (65 :> JSXOpeningElement(66, <<69>>)) @@
  (66 :> JSXMemberExpression(67, 68)) @@
  (67 :> JSXIdentifier) @@
  (68 :> JSXIdentifier) @@
  (69 :> JSXAttribute(70, 76)) @@
  (70 :> JSXIdentifier) @@
  (71 :> JSXText) @@
  (72 :> JSXClosingElement(73)) @@
  (73 :> JSXMemberExpression(74, 75)) @@
  (74 :> JSXIdentifier) @@
  (75 :> JSXIdentifier) @@
  (76 :> Literal)

Objects == DOMAIN Heap
Nodes == {o \in Objects : Heap[o].cls = "node"}

\* walk() is called on a node of a converted tree.
Roots == Nodes

(***************************************************************************)
(* WalkIterator (src/traversal.rs).                                        *)
(***************************************************************************)
NodeAttrsWithBody ==
  <<"init", "declaration", "function_body", "class_body", "value", "key",
    "super_class", "consequent", "alternate", "test", "update", "discriminant",
    "block", "handler", "finalizer", "param", "left", "right", "expression",
    "callee", "object", "property", "argument", "quasi", "tag", "source",
    "local", "imported", "exported", "type_annotation", "type_parameters",
    "extends", "opening_element", "closing_element", "return_type", "id",
    "constraint", "default", "initializer", "body">>

\* Roles probed as a single child, in the order of the code.
NodeAttrs ==
  <<"init", "declaration", "function_body", "class_body", "value", "key",
    "super_class", "consequent", "alternate", "test", "update", "discriminant",
    "block", "handler", "finalizer", "param", "left", "right", "expression",
    "callee", "object", "property", "argument", "quasi", "tag", "source",
    "local", "imported", "exported", "type_annotation", "type_parameters",
    "extends", "opening_element", "closing_element", "return_type", "id",
    "constraint", "default", "initializer">>

\* Roles probed as a list of children, in the order of the code.
ListAttrs ==
  <<"statements", "declarations", "params", "methods", "decorators",
    "cases", "arguments", "properties", "elements", "quasis", "expressions",
    "specifiers", "members", "implements", "children", "attributes">>

\* node_ref.getattr(a) is Ok
HasAttr(o, a) == a \in DOMAIN Heap[o].attrs
GetAttr(o, a) == Heap[o].attrs[a]

\* attr.is_none()
IsNone(v) == v.k = "one" /\ Heap[v.ids[1]].cls = "none"

HasTypeAlways(o) == TRUE

\* child.hasattr("type").unwrap_or(false)
HasType(o) == Heap[o].cls = "node"

\* attr.extract::<Vec<Py<PyAny>>>() is Ok: a list, never None, a str or a node
IsVec(v) == v.k = "list"

\* One pass of the `for attr_name in node_attrs` loop.
SingleProbe(o, a) ==
  IF HasAttr(o, a) /\ ~IsNone(GetAttr(o, a))
       /\ GetAttr(o, a).k = "one" /\ HasType(GetAttr(o, a).ids[1])
  THEN <<GetAttr(o, a).ids[1]>>
  ELSE <<>>

\* One pass of the `for attr_name in list_attrs` loop; also the extends and
\* consequent list probes.
ListProbe(o, a) ==
  IF HasAttr(o, a) /\ IsVec(GetAttr(o, a))
  THEN SelectSeq(GetAttr(o, a).ids, HasType)
  ELSE <<>>

\* body: a list first, otherwise a single node.
BodyProbe(o) ==
  IF ~HasAttr(o, "body") THEN <<>>
  ELSE IF IsVec(GetAttr(o, "body")) THEN SelectSeq(GetAttr(o, "body").ids, HasType)
  ELSE IF ~IsNone(GetAttr(o, "body")) /\ HasType(GetAttr(o, "body").ids[1])
       THEN <<GetAttr(o, "body").ids[1]>>
  ELSE <<>>

JSXNameTypes == {"JSXIdentifier", "JSXMemberExpression"}

\* name: pushed when its `type` attribute is one of the two JSX name types.
NameProbe(o) ==
  IF HasAttr(o, "name") /\ ~IsNone(GetAttr(o, "name"))
       /\ GetAttr(o, "name").k = "one"
       /\ Heap[GetAttr(o, "name").ids[1]].cls = "node"
       /\ Heap[GetAttr(o, "name").ids[1]].type \in JSXNameTypes
  THEN <<GetAttr(o, "name").ids[1]>>
  ELSE <<>>

RECURSIVE ProbeAll(_, _, _)
ProbeAll(o, names, single) ==
  IF names = <<>> THEN <<>>
  ELSE (IF single THEN SingleProbe(o, Head(names)) ELSE ListProbe(o, Head(names)))
       \o ProbeAll(o, Tail(names), single)

\* The children pushed with the JSX name first.
ChildrenNameFirst(o) ==
  NameProbe(o) \o ProbeAll(o, NodeAttrs, TRUE) \o ProbeAll(o, ListAttrs, FALSE) \o BodyProbe(o)
    \o ListProbe(o, "extends") \o ListProbe(o, "consequent")

\* The nodes pushed to children_to_add while o is visited, in push order.
Children(o) ==
  ProbeAll(o, NodeAttrs, TRUE) \o ProbeAll(o, ListAttrs, FALSE) \o BodyProbe(o)
    \o ListProbe(o, "extends") \o ListProbe(o, "consequent") \o NameProbe(o)

ChildrenToAddSameDepth(o, depth) ==
  [i \in 1..Len(Children(o)) |-> [node |-> Children(o)[i], depth |-> depth]]

ChildrenToAdd(o, depth) ==
  [i \in 1..Len(Children(o)) |-> [node |-> Children(o)[i], depth |-> depth + 1]]

\* WalkIterator::new
WalkIteratorNew(program) == <<[node |-> program, depth |-> 0]>>

PeekFront(q) == q

\* queue.pop_front(): the queue that remains
PopFront(q) == Tail(q)

PushFrontAll(q, items) == items \o q

\* for child in children_to_add { queue.push_back(child) }
PushBackAll(q, items) == q \o items

StoreShared(qs, w, q) == [v \in DOMAIN qs |-> q]

\* self.queue = ...: the queue is a field of the walker it belongs to
Store(qs, w, q) == [qs EXCEPT ![w] = q]

\* WalkIterator::__next__
WalkNext(w) ==
  /\ IF queue[w] # <<>>
     THEN /\ queue' = Store(queue, w,
                 PushBackAll(PopFront(queue[w]),
                             ChildrenToAdd(Head(queue[w]).node, Head(queue[w]).depth)))
          /\ out' = [out EXCEPT ![w] = Append(@, Head(queue[w]))]
          /\ ret' = [ret EXCEPT ![w] = "some"]
          /\ UNCHANGED stops
     ELSE /\ stops[w] < MaxEndPulls
          /\ stops' = [stops EXCEPT ![w] = @ + 1]
          /\ ret' = [ret EXCEPT ![w] = "stop"]
          /\ UNCHANGED <<queue, out>>
  /\ UNCHANGED <<root, lineVars, nodeVars, conv, parseVars>>

(***************************************************************************)
(* Sources and the line-offset table (src/parser.rs).  A source is a       *)
(* sequence of characters (code points); its bytes are its UTF-8 encoding. *)
(***************************************************************************)
LF == 10

\* The characters of the sources: 'a', '\n' and U+00E9, two bytes in UTF-8.
Chars == {97, LF, 233}

Sources == UNION {[1..n -> Chars] : n \in 0..MaxLen}

\* UTF-8 encoding of a code point below U+0800
Utf8(c) == IF c < 128 THEN <<c>> ELSE <<192 + (c \div 64), 128 + (c % 64)>>

\* source.as_bytes()
RECURSIVE Bytes(_)
Bytes(src) == IF src = <<>> THEN <<>> ELSE Utf8(Head(src)) \o Bytes(Tail(src))

\* source.len(): the length in bytes
ByteLen(src) == Len(Bytes(src))

\* The byte offsets at which a character of src starts, and the end offset.
CharBoundaries(src) == {ByteLen(SubSeq(src, 1, k)) : k \in 0..Len(src)}

Min(a, b) == IF a < b THEN a ELSE b

\* usize::saturating_sub
SaturatingSub(a, b) == IF a > b THEN a - b ELSE 0

\* The loop of build_line_offset_table: one entry per item of source.chars().
RECURSIVE BuildFrom(_, _)
BuildFrom(chars, current_line) ==
  IF chars = <<>> THEN <<>>
  ELSE <<current_line>>
         \o BuildFrom(Tail(chars), IF Head(chars) = LF THEN current_line + 1 ELSE current_line)

\* build_line_offset_table
BuildLineOffsetTable(src) == BuildFrom(src, 1)

\* The number of '\n' in a sequence of characters or of bytes.
RECURSIVE CountLF(_)
CountLF(s) ==
  IF s = <<>> THEN 0 ELSE (IF Head(s) = LF THEN 1 ELSE 0) + CountLF(Tail(s))

\* source[..safe_offset].chars(): the characters that end at or before the
\* offset.  The slice panics when the offset is not a character boundary.
Prefix(src, off) ==
  SubSeq(src, 1, Cardinality({k \in 1..Len(src) : ByteLen(SubSeq(src, 1, k)) <= off}))

\* The scanning fallback of compute_line_number.
ScanLine(src, offset) ==
  IF Min(offset, ByteLen(src)) \in CharBoundaries(src)
  THEN [panic |-> FALSE, line |-> CountLF(Prefix(src, Min(offset, ByteLen(src)))) + 1]
  ELSE [panic |-> TRUE, line |-> 0]

\* compute_line_number: lo is the value of LINE_OFFSETS.
ComputeLineNumber(lo, src, offset) ==
  IF lo.some /\ Min(offset, SaturatingSub(Len(lo.table), 1)) < Len(lo.table)
  THEN [panic |-> FALSE,
        line |-> lo.table[Min(offset, SaturatingSub(Len(lo.table), 1)) + 1]]
  ELSE ScanLine(src, offset)

NoTable == [some |-> FALSE, table |-> <<>>]
NoLookup == [made |-> FALSE, offset |-> 0, panic |-> FALSE, line |-> 0]
NoProgram == <<0, 0>>
NoNode == [kind |-> "", made |-> "none", span |-> <<0, 0>>, lines |-> <<>>]
NoAccess == [op |-> "none", same |-> FALSE, panic |-> FALSE, text |-> <<>>, range |-> <<>>]

\* parse(), step 1.5: the table is built from the source and installed.
ParseBegin(src) ==
  /\ pc = "idle"
  /\ source' = src
  /\ lineOffsets' = [some |-> TRUE, table |-> BuildLineOffsetTable(src)]
  /\ pc' = "converting"
  /\ lookup' = NoLookup
  /\ programLines' = NoProgram
  /\ node' = NoNode
  /\ access' = NoAccess
  /\ UNCHANGED <<walkVars, conv, parseVars>>

\* A conversion function looks up the line of a span offset of a node.
ConvertLookup(offset) ==
  /\ pc = "converting"
  /\ lookup' = [made |-> TRUE, offset |-> offset,
                panic |-> ComputeLineNumber(lineOffsets, source, offset).panic,
                line |-> ComputeLineNumber(lineOffsets, source, offset).line]
  /\ UNCHANGED <<source, lineOffsets, pc, programLines, walkVars, nodeVars, conv, parseVars>>

\* compute_line_number is public: a caller outside parse() hands it any source
\* and any offset, and it reads whatever table the thread holds at that time.
CallComputeLineNumber(src, offset) ==
  /\ pc = "idle"
  /\ lookup' = [made |-> TRUE, offset |-> offset,
                panic |-> ComputeLineNumber(lineOffsets, src, offset).panic,
                line |-> ComputeLineNumber(lineOffsets, src, offset).line]
  /\ UNCHANGED <<source, lineOffsets, pc, programLines, walkVars, nodeVars, conv, parseVars>>

\* parse(), step 4: the Program node of span [0, len(source)] gets its lines.
ConvertProgram ==
  /\ pc = "converting"
  /\ programLines' = <<ComputeLineNumber(lineOffsets, source, 0).line,
                       ComputeLineNumber(lineOffsets, source, ByteLen(source)).line>>
  /\ pc' = "program"
  /\ UNCHANGED <<source, lineOffsets, lookup, walkVars, nodeVars, conv, parseVars>>

\* parse(): the table is removed and the result returned.
ParseReturn ==
  /\ pc = "program"
  /\ lineOffsets' = NoTable
  /\ pc' = "idle"
  /\ UNCHANGED <<source, lookup, programLines, walkVars, nodeVars, conv, parseVars>>

\* parse(), step 2: source_type is none of the accepted names; the table is
\* removed and the error returned, before the source is parsed.
ParseInvalidSourceType ==
  /\ pc = "converting"
  /\ ~lookup.made /\ node = NoNode
  /\ lineOffsets' = NoTable
  /\ pc' = "idle"
  /\ UNCHANGED <<source, lookup, programLines, walkVars, nodeVars, conv, parseVars>>

\* parse(), step 4: convert_statement(stmt, py, source)? returns the error of
\* a failed conversion to the caller.
ConvertStatementFails ==
  /\ pc = "converting"
  /\ pc' = "idle"
  /\ UNCHANGED <<source, lineOffsets, lookup, programLines, walkVars, nodeVars, conv, parseVars>>

\* parse(), step 4: Py::new(py, program_node)? returns its error to the caller.
ProgramNewFails ==
  /\ pc = "program"
  /\ programLines' = NoProgram
  /\ pc' = "idle"
  /\ UNCHANGED <<source, lineOffsets, lookup, walkVars, nodeVars, conv, parseVars>>

(***************************************************************************)
(* Node objects: their spans, their stored lines and their accessors.      *)
(***************************************************************************)
MaxSpan == 2        \* largest offset of a Span built by the caller
MaxText == 2        \* characters of a text handed to an accessor, other than the parsed source

\* The strings a caller hands to get_text and get_line_range.
Texts == {src \in Sources : Len(src) <= MaxText} \cup {source}

\* Kinds whose struct has start_line and end_line fields.
StoredLineKinds == {"Node", "Program", "IfStatement"}
\* Kinds whose get_text slices with source.get(..).unwrap_or("").
SafeTextKinds == {"Node", "Program", "Identifier"}
\* Kinds whose get_line_range scans the source it is handed.
ScanLineKinds == {"JSXElement", "JSXIdentifier"}
\* Kinds with a #[new] constructor.
ConstructibleKinds == {"Node", "Identifier"}
\* Kinds the conversion functions build from a construct of the parser.
ConvertedKinds == {"Node", "IfStatement", "Identifier", "JSXElement"}

\* Span::from(oxc_span::Span) with the end taken from the start's place.
SpanFromSwapped(start, end) == <<end, start>>

\* Span::from(oxc_span::Span)
SpanFrom(start, end) == <<start, end>>

\* Span { start: 0, end: 0 } of a JSX name the converter does not support
PlaceholderSpan == <<0, 0>>

\* start_line taken at the span's end and end_line at its start.
StoredLinesEndFirst(lo, src, span) ==
  <<ComputeLineNumber(lo, src, span[2]).line, ComputeLineNumber(lo, src, span[1]).line>>

\* start_line and end_line as the conversion functions compute them
StoredLines(lo, src, span) ==
  <<ComputeLineNumber(lo, src, span[1]).line, ComputeLineNumber(lo, src, span[2]).line>>

\* The fields of a node of the given kind built during a parse.
ConvertedNode(kind, lo, src, span) ==
  [kind |-> kind, made |-> "convert", span |-> span,
   lines |-> IF kind \in StoredLineKinds THEN StoredLines(lo, src, span) ELSE <<>>]

\* Node::new and the #[new] of the expression nodes
NewNodeObject(kind, span) ==
  [kind |-> kind, made |-> "new", span |-> span,
   lines |-> IF kind \in StoredLineKinds THEN <<1, 1>> ELSE <<>>]

\* The Program node with a span of the source's length in characters.
ProgramNodeCharSpan ==
  [kind |-> "Program", made |-> "convert", span |-> SpanFrom(0, Len(source)),
   lines |-> programLines]

\* The Program node parse() returns: the parser's span of the whole source.
ProgramNode ==
  [kind |-> "Program", made |-> "convert", span |-> SpanFrom(0, ByteLen(source)),
   lines |-> programLines]

\* get_text written as source[start..end] on clamped offsets.
SliceGetText(span, src) ==
  LET start == Min(span[1], ByteLen(src))
      end == Min(span[2], ByteLen(src))
  IN IF start <= end /\ {start, end} \subseteq CharBoundaries(src)
     THEN [panic |-> FALSE, text |-> SubSeq(Bytes(src), start + 1, end)]
     ELSE [panic |-> TRUE, text |-> <<>>]

\* get_text written as source.get(start..end).unwrap_or("").
SafeGetText(span, src) ==
  IF SliceGetText(span, src).panic
  THEN [panic |-> FALSE, text |-> <<>>]
  ELSE SliceGetText(span, src)

\* get_text of every kind answered by slicing.
GetTextSliceOnly(n, src) == SliceGetText(n.span, src)

GetText(n, src) ==
  IF n.kind \in SafeTextKinds THEN SafeGetText(n.span, src) ELSE SliceGetText(n.span, src)

\* get_line_range of the JSX nodes: counts line feeds before each clamped offset.
ScanLineRange(span, src) ==
  [panic |-> ScanLine(src, span[1]).panic \/ ScanLine(src, span[2]).panic,
   range |-> <<ScanLine(src, span[1]).line, ScanLine(src, span[2]).line>>]

GetLineRange(n, src) ==
  IF n.kind \in StoredLineKinds THEN [panic |-> FALSE, range |-> n.lines]
  ELSE IF n.kind \in ScanLineKinds THEN ScanLineRange(n.span, src)
  ELSE [panic |-> FALSE, range |-> <<1, 1>>]

\* A conversion function builds the node of a construct the parser spans
\* [start, end).
ConvertNode(kind, start, end) ==
  /\ pc = "converting"
  /\ start <= end
  /\ node' = ConvertedNode(kind, lineOffsets, source, SpanFrom(start, end))
  /\ access' = NoAccess
  /\ UNCHANGED <<lineVars, walkVars, conv, parseVars>>

\* convert_jsx_element_name on a namespaced or `this` name.
ConvertPlaceholder ==
  /\ pc = "converting"
  /\ node' = ConvertedNode("JSXIdentifier", lineOffsets, source, PlaceholderSpan)
  /\ access' = NoAccess
  /\ UNCHANGED <<lineVars, walkVars, conv, parseVars>>

\* The caller builds a node itself, from any Span.
NewNode(kind, start, end) ==
  /\ pc = "idle"
  /\ access = NoAccess
  /\ node' = NewNodeObject(kind, <<start, end>>)
  /\ UNCHANGED <<access, lineVars, walkVars, conv, parseVars>>

\* The caller takes the Program node out of the result of the last parse.
HoldProgram ==
  /\ pc = "idle"
  /\ access = NoAccess
  /\ programLines # NoProgram
  /\ node' = ProgramNode
  /\ UNCHANGED <<access, lineVars, walkVars, conv, parseVars>>

\* node.get_text(src) on the held node
CallGetText(src) ==
  /\ pc = "idle"
  /\ access = NoAccess
  /\ node # NoNode
  /\ access' = [op |-> "get_text", same |-> (src = source),
                panic |-> GetText(node, src).panic,
                text |-> GetText(node, src).text, range |-> <<>>]
  /\ UNCHANGED <<node, lineVars, walkVars, conv, parseVars>>

\* node.get_line_range(src) on the held node
CallGetLineRange(src) ==
  /\ pc = "idle"
  /\ access = NoAccess
  /\ node # NoNode
  /\ access' = [op |-> "get_line_range", same |-> (src = source),
                panic |-> GetLineRange(node, src).panic,
                text |-> <<>>, range |-> GetLineRange(node, src).range]
  /\ UNCHANGED <<node, lineVars, walkVars, conv, parseVars>>

\* The caller drops the result of the call.
DropResult ==
  /\ access # NoAccess
  /\ access' = NoAccess
  /\ UNCHANGED <<node, lineVars, walkVars, conv, parseVars>>

(***************************************************************************)
(* The conversion functions, on trees of the parser.                       *)
(***************************************************************************)
MaxFailures == 2    \* constructs whose node construction fails during one parse

\* A construct of the parser's tree: kind, span, and its children by field.
Construct(kind, start, end, kids) ==
  [kind |-> kind, span |-> <<start, end>>, kids |-> kids]

\* Three parsed sources:
\*   100   if(a)b;\nnamespace N{}
\*   110   let x=(f(y),z);namespace N{}
\*   120   export let x=1;for(let i=0;i;){a;b}
\*   140   x=>y;()=>{a};
\*   160   a;<a:b>{...c}</a:b>
\* An arrow function has the flag `expression` of a concise body; the
\* statements of a FunctionBody are its field `body`.
Ast ==
  (100 :> Construct("Program", 0, 21, [body |-> <<101, 105>>]))
  @@ (101 :> Construct("IfStatement", 0, 7,
                [test |-> <<102>>, consequent |-> <<103>>, alternate |-> <<>>]))
  @@ (102 :> Construct("Identifier", 3, 4, <<>>))
  @@ (103 :> Construct("ExpressionStatement", 5, 7, [expression |-> <<104>>]))
  @@ (104 :> Construct("Identifier", 5, 6, <<>>))
  @@ (105 :> Construct("TSModuleDeclaration", 8, 21, <<>>))
  @@ (109 :> Construct("TSModuleDeclaration", 15, 28, <<>>))
  @@ (110 :> Construct("Program", 0, 28, [body |-> <<111, 109>>]))
  @@ (111 :> Construct("VariableDeclaration", 0, 15, [declarations |-> <<112>>]))
  @@ (112 :> Construct("VariableDeclarator", 4, 14, [id |-> <<113>>, init |-> <<114>>]))
  @@ (113 :> Construct("BindingIdentifier", 4, 5, <<>>))
  @@ (114 :> Construct("ParenthesizedExpression", 6, 14, [expression |-> <<115>>]))
  @@ (115 :> Construct("SequenceExpression", 7, 13, [expressions |-> <<116, 119>>]))
  @@ (116 :> Construct("CallExpression", 7, 11, [callee |-> <<117>>, arguments |-> <<118>>]))
  @@ (117 :> Construct("Identifier", 7, 8, <<>>))
  @@ (118 :> Construct("Identifier", 9, 10, <<>>))
  @@ (119 :> Construct("PrivateInExpression", 12, 13, <<>>))
  @@ (120 :> Construct("Program", 0, 35, [body |-> <<121, 126>>]))
  @@ (121 :> Construct("ExportNamedDeclaration", 0, 15, [declaration |-> <<122>>]))
  @@ (122 :> Construct("VariableDeclaration", 7, 15, [declarations |-> <<123>>]))
  @@ (123 :> Construct("VariableDeclarator", 11, 14, [id |-> <<124>>, init |-> <<125>>]))
  @@ (124 :> Construct("BindingIdentifier", 11, 12, <<>>))
  @@ (125 :> Construct("NumericLiteral", 13, 14, <<>>))
  @@ (126 :> Construct("ForStatement", 15, 35,
                [init |-> <<127>>, test |-> <<131>>, update |-> <<>>, body |-> <<132>>]))
  @@ (127 :> Construct("VariableDeclaration", 19, 26, [declarations |-> <<128>>]))
  @@ (128 :> Construct("VariableDeclarator", 23, 26, [id |-> <<129>>, init |-> <<130>>]))
  @@ (129 :> Construct("BindingIdentifier", 23, 24, <<>>))
  @@ (130 :> Construct("NumericLiteral", 25, 26, <<>>))
  @@ (131 :> Construct("Identifier", 27, 28, <<>>))
  @@ (132 :> Construct("BlockStatement", 30, 35, [body |-> <<133, 135>>]))
  @@ (133 :> Construct("ExpressionStatement", 31, 33, [expression |-> <<134>>]))
  @@ (134 :> Construct("Identifier", 31, 32, <<>>))
  @@ (135 :> Construct("ExpressionStatement", 33, 34, [expression |-> <<136>>]))
  @@ (136 :> Construct("Identifier", 33, 34, <<>>))
  @@ (140 :> Construct("Program", 0, 13, [body |-> <<141, 148>>]))
  @@ (141 :> Construct("ExpressionStatement", 0, 5, [expression |-> <<142>>]))
  @@ (142 :> (Construct("ArrowFunctionExpression", 0, 4, [params |-> <<143>>, body |-> <<144>>])
                @@ [expression |-> TRUE]))
  @@ (143 :> Construct("FormalParameter", 0, 1, <<>>))
  @@ (144 :> Construct("FunctionBody", 3, 4, [body |-> <<145>>]))
  @@ (145 :> Construct("ExpressionStatement", 3, 4, [expression |-> <<146>>]))
  @@ (146 :> Construct("Identifier", 3, 4, <<>>))
  @@ (148 :> Construct("ExpressionStatement", 5, 13, [expression |-> <<149>>]))
  @@ (149 :> (Construct("ArrowFunctionExpression", 5, 12, [params |-> <<>>, body |-> <<150>>])
                @@ [expression |-> FALSE]))
  @@ (150 :> Construct("FunctionBody", 9, 12, [body |-> <<151>>]))
  @@ (151 :> Construct("ExpressionStatement", 10, 11, [expression |-> <<152>>]))
  @@ (152 :> Construct("Identifier", 10, 11, <<>>))
  @@ (160 :> Construct("Program", 0, 19, [body |-> <<161, 163>>]))
  @@ (161 :> Construct("ExpressionStatement", 0, 2, [expression |-> <<162>>]))
  @@ (162 :> Construct("Identifier", 0, 1, <<>>))
  @@ (163 :> Construct("ExpressionStatement", 2, 19, [expression |-> <<164>>]))
  @@ (164 :> Construct("JSXElement", 2, 19,
               [opening_element |-> <<165>>, children |-> <<167>>, closing_element |-> <<168>>]))
  @@ (165 :> Construct("JSXOpeningElement", 2, 7, [name |-> <<166>>]))
  @@ (166 :> Construct("JSXNamespacedName", 3, 6, <<>>))
  @@ (167 :> Construct("JSXSpreadChild", 7, 13, <<>>))
  @@ (168 :> Construct("JSXClosingElement", 13, 19, [name |-> <<169>>]))
  @@ (169 :> Construct("JSXNamespacedName", 15, 18, <<>>))

Programs == {c \in DOMAIN Ast : Ast[c].kind = "Program"}

\* The children a construct has in a field (none when it lacks the field).
Kids(c, role) == IF role \in DOMAIN Ast[c].kids THEN Ast[c].kids[role] ELSE <<>>

AllKids(c) ==
  UNION {{Ast[c].kids[role][k] : k \in DOMAIN Ast[c].kids[role]} : role \in DOMAIN Ast[c].kids}

RECURSIVE Descendants(_)
\* The constructs below a construct.
Descendants(c) == AllKids(c) \cup UNION {Descendants(k) : k \in AllKids(c)}

\* A node of a pyclass of its own, built for construct c (`of` is not a field
\* of the pyclass: it names the construct the node was built for).
SpecificNode(c, type, fields) ==
  [of |-> c, type |-> type, span |-> SpanFrom(Ast[c].span[1], Ast[c].span[2]),
   generic |-> FALSE, fields |-> fields]

\* Node::new(type, span) with its lines set: kind, span and lines only.
GenericNode(c, type) ==
  [of |-> c, type |-> type, span |-> SpanFrom(Ast[c].span[1], Ast[c].span[2]),
   generic |-> TRUE, fields |-> <<>>]

\* A default arm that names no kind.
TypeStrNone(kind) == ""

\* The discriminator the default arms give a kind without a node type.
TypeStr(kind) ==
  IF kind \in {"Identifier", "NumericLiteral", "TSModuleDeclaration"} THEN kind
  ELSE "Expression"

\* A sequence written out element by element.
Listed(f) == f @@ <<>>

\* PyResult of a conversion: Ok(node), Err, or a panic of an unwrap().
ConvOk(n) == [st |-> "ok", node |-> n]
ConvFail(st) == [st |-> st, node |-> <<>>]

\* Outcome of converting children in order, each with `?`.
FirstBad(rs) ==
  IF \A k \in DOMAIN rs : rs[k].st = "ok" THEN "ok"
  ELSE rs[CHOOSE k \in DOMAIN rs :
            rs[k].st # "ok" /\ \A j \in 1..(k - 1) : rs[j].st = "ok"].st

ResultNodes(rs) == Listed([k \in DOMAIN rs |-> rs[k].node])

\* Py::new(py, node)? for the node of construct c; it fails for c in F.
PyNew(c, F, n) == IF c \in F THEN ConvFail("err") ELSE ConvOk(n)

\* Py::new(py, node).unwrap()
PyNewUnwrap(c, F, n) == IF c \in F THEN ConvFail("panic") ELSE ConvOk(n)

\* The child fields an arm converts with `?`, in the order of the code.
PropagatedRoles(kind) ==
  CASE kind = "IfStatement" -> <<"test", "consequent", "alternate">>
    [] kind = "ExpressionStatement" -> <<"expression">>
    [] kind = "BlockStatement" -> <<"body">>
    [] kind = "CallExpression" -> <<"callee", "arguments">>
    [] kind = "JSXElement" -> <<"opening_element", "children", "closing_element">>
    [] kind = "JSXOpeningElement" -> <<"name", "attributes">>
    [] kind = "JSXClosingElement" -> <<"name">>
    [] OTHER -> <<>>

\* VariableDeclaration { declarations: Vec::new() } built for a declaration
\* that is exported or is the init of a for statement.
EmptyDeclaration(v, F) ==
  PyNew(v, F, SpecificNode(v, "VariableDeclaration", [declarations |-> <<>>]))

\* An arrow function whose body is always taken for a block.
ArrowBodyNeverExpression(c) == FALSE

\* `if arrow.expression`: the arrow function has a concise body.
ArrowBodyIsExpression(c) == Ast[c].expression

\* A node the converter builds with Span { start: 0, end: 0 } in place of a
\* construct it does not support.
Placeholder(c, type, fields) ==
  [SpecificNode(c, type, fields) EXCEPT !.span = PlaceholderSpan]

\* unwrap_or_else: a generic "Expression" node stands in for a failed child.
OrExpression(r, child) ==
  IF r.st = "err" THEN ConvOk(GenericNode(child, "Expression")) ELSE r

RECURSIVE Convert(_, _)
\* convert_statement / convert_expression on construct c, the node
\* constructions of the constructs in F failing.
Convert(c, F) ==
  LET kind == Ast[c].kind
      All(role) == Listed([k \in DOMAIN Kids(c, role) |-> Convert(Kids(c, role)[k], F)])
      \* one declarator of a VariableDeclaration statement
      Declarator(d) ==
        LET id == Kids(d, "id")[1]
            idr == PyNewUnwrap(id, F, SpecificNode(id, "Identifier", <<>>))
            initr == Listed([k \in DOMAIN Kids(d, "init") |-> Convert(Kids(d, "init")[k], F)])
        IN IF idr.st = "panic" \/ FirstBad(initr) = "panic" THEN ConvFail("panic")
           ELSE PyNewUnwrap(d, F, SpecificNode(d, "VariableDeclarator",
                  [id |-> <<idr.node>>,
                   init |-> IF FirstBad(initr) = "ok" THEN ResultNodes(initr) ELSE <<>>]))
      decls == Listed([k \in DOMAIN Kids(c, "declarations") |->
                         Declarator(Kids(c, "declarations")[k])])
      propagated ==
        Listed([k \in DOMAIN PropagatedRoles(kind) |->
                  [st |-> FirstBad(All(PropagatedRoles(kind)[k])),
                   node |-> ResultNodes(All(PropagatedRoles(kind)[k]))]])
      exported == EmptyDeclaration(Kids(c, "declaration")[1], F)
      forInit == OrExpression(EmptyDeclaration(Kids(c, "init")[1], F), Kids(c, "init")[1])
      forTest == OrExpression(Convert(Kids(c, "test")[1], F), Kids(c, "test")[1])
      arrowParams ==
        Listed([k \in DOMAIN Kids(c, "params") |->
                  PyNew(Kids(c, "params")[k], F,
                        SpecificNode(Kids(c, "params")[k], "Identifier", <<>>))])
      first == Kids(Kids(c, "body")[1], "body")[1]
      arrowBody ==
        IF ArrowBodyIsExpression(c)
        THEN IF Kids(Kids(c, "body")[1], "body") # <<>> /\ Ast[first].kind = "ExpressionStatement"
             THEN <<Convert(Kids(first, "expression")[1], F)>>
             ELSE <<>>
        ELSE <<Convert(Kids(c, "body")[1], F)>>
      spread == PyNew(c, F, Placeholder(c, "Identifier", <<>>))
  IN CASE kind \in {"IfStatement", "ExpressionStatement", "BlockStatement", "CallExpression",
                    "JSXElement", "JSXOpeningElement", "JSXClosingElement"} ->
            IF FirstBad(propagated) # "ok" THEN ConvFail(FirstBad(propagated))
            ELSE PyNew(c, F, SpecificNode(c, kind,
                   Listed([role \in {PropagatedRoles(kind)[k] : k \in DOMAIN PropagatedRoles(kind)}
                             |-> ResultNodes(All(role))])))
       [] kind = "VariableDeclaration" ->
            IF FirstBad(decls) # "ok" THEN ConvFail(FirstBad(decls))
            ELSE PyNew(c, F, SpecificNode(c, kind, [declarations |-> ResultNodes(decls)]))
       [] kind = "ExportNamedDeclaration" ->
            IF exported.st # "ok" THEN ConvFail(exported.st)
            ELSE PyNew(c, F, SpecificNode(c, kind, [declaration |-> <<exported.node>>]))
       [] kind = "ForStatement" ->
            IF forTest.st # "ok" THEN ConvFail(forTest.st)
            ELSE IF FirstBad(All("body")) # "ok" THEN ConvFail(FirstBad(All("body")))
            ELSE PyNew(c, F, SpecificNode(c, kind,
                   [init |-> <<forInit.node>>, test |-> <<forTest.node>>,
                    update |-> <<>>, body |-> ResultNodes(All("body"))]))
       [] kind = "ArrowFunctionExpression" ->
            IF FirstBad(arrowParams) # "ok" THEN ConvFail(FirstBad(arrowParams))
            ELSE IF FirstBad(arrowBody) # "ok" THEN ConvFail(FirstBad(arrowBody))
            ELSE PyNew(c, F, SpecificNode(c, kind,
                   [params |-> ResultNodes(arrowParams), body |-> ResultNodes(arrowBody)]))
       [] kind = "FunctionBody" ->
            IF FirstBad(All("body")) # "ok" THEN ConvFail(FirstBad(All("body")))
            ELSE PyNew(c, F, SpecificNode(c, "BlockStatement", [body |-> ResultNodes(All("body"))]))
       [] kind = "JSXNamespacedName" -> PyNew(c, F, Placeholder(c, "JSXIdentifier", <<>>))
       [] kind = "JSXSpreadChild" ->
            IF spread.st # "ok" THEN ConvFail(spread.st)
            ELSE PyNew(c, F, Placeholder(c, "JSXExpressionContainer",
                                         [expression |-> <<spread.node>>]))
       [] kind = "ParenthesizedExpression" -> Convert(Kids(c, "expression")[1], F)
       [] kind = "SequenceExpression" ->
            IF FirstBad(All("expressions")) # "ok" THEN ConvFail(FirstBad(All("expressions")))
            ELSE PyNew(c, F, GenericNode(c, "SequenceExpression"))
       [] OTHER -> PyNew(c, F, GenericNode(c, TypeStr(kind)))

\* The conversions of every construct of the catalogue, for each set of
\* failing node constructions.
RECURSIVE SetsUpTo(_, _)
\* The sets of at most n constructs below the Program p.
SetsUpTo(n, p) ==
  IF n = 0 THEN {{}}
  ELSE SetsUpTo(n - 1, p) \cup {S \cup {c} : S \in SetsUpTo(n - 1, p), c \in Descendants(p)}

FailureSets(p) == SetsUpTo(MaxFailures, p)
ConvertTable ==
  Listed([p \in Programs |->
    Listed([F \in FailureSets(p) |->
      Listed([c \in AllKids(p) |-> Convert(c, F)])])])

NoConv == [program |-> 0, failing |-> {}, next |-> 0, body |-> <<>>, last |-> "none",
           done |-> FALSE]

\* parse(), step 3: the parser hands over the tree of the source.
ConvertBegin(p, F) ==
  /\ conv = NoConv
  /\ F \subseteq Descendants(p)
  /\ conv' = [program |-> p, failing |-> F, next |-> 1, body |-> <<>>, last |-> "none",
              done |-> FALSE]
  /\ UNCHANGED <<lineVars, walkVars, nodeVars, parseVars>>

\* parse(), step 4: one turn of `for stmt in &parse_result.program.body`.
ConvertStatementStep ==
  /\ conv.program # 0 /\ ~conv.done
  /\ conv.last \in {"none", "ok"}
  /\ conv.next <= Len(Kids(conv.program, "body"))
  /\ LET r == ConvertTable[conv.program][conv.failing][Kids(conv.program, "body")[conv.next]]
     IN conv' = IF r.st = "ok"
                THEN [conv EXCEPT !.body = Append(@, r.node), !.next = @ + 1, !.last = "ok"]
                ELSE [conv EXCEPT !.last = r.st]
  /\ UNCHANGED <<lineVars, walkVars, nodeVars, parseVars>>

\* parse(), step 4: the loop is over, the Program node gets the body.
BuildProgram ==
  /\ conv.program # 0 /\ ~conv.done
  /\ conv.last \in {"none", "ok"}
  /\ conv.next > Len(Kids(conv.program, "body"))
  /\ conv' = [conv EXCEPT !.done = TRUE]
  /\ UNCHANGED <<lineVars, walkVars, nodeVars, parseVars>>

\* parse() returns, with its result or with the error.
ConvertEnd ==
  /\ conv.done \/ conv.last \in {"err", "panic"}
  /\ conv' = NoConv
  /\ UNCHANGED <<lineVars, walkVars, nodeVars, parseVars>>

NextConv ==
  \/ \E p \in Programs : \E F \in FailureSets(p) : ConvertBegin(p, F)
  \/ ConvertStatementStep
  \/ BuildProgram
  \/ ConvertEnd

(***************************************************************************)
(* Comment extraction: extract_comments scans the bytes of the source for  *)
(* // and /* */ and skips over string literals.                            *)
(***************************************************************************)
\* Bound: the number of tokens a scanned source is made of.
MaxTokens == 4

SLASH == 47
STAR == 42
QUOTE == 34
APOS == 39
BACKTICK == 96
BACKSLASH == 92
CR == 13

\* What a scanned source is made of: single characters, and the string
\* literals "\\" and "//".
ScanTokens ==
  {<<SLASH>>, <<STAR>>, <<QUOTE>>, <<APOS>>, <<BACKSLASH>>, <<LF>>, <<97>>, <<233>>,
   <<QUOTE, BACKSLASH, BACKSLASH, QUOTE>>, <<QUOTE, SLASH, SLASH, QUOTE>>}

RECURSIVE TokenSources(_)
\* The sources made of at most n tokens.
TokenSources(n) ==
  IF n = 0 THEN {<<>>}
  ELSE TokenSources(n - 1) \cup {src \o t : src \in TokenSources(n - 1), t \in ScanTokens}

ScanSources == TokenSources(MaxTokens)

\* source[a..b]: panics unless a <= b <= len and both are character boundaries.
StrSlice(src, a, b) ==
  [panic |-> ~(a <= b /\ b <= ByteLen(src) /\ {a, b} \subseteq CharBoundaries(src)),
   text  |-> SubSeq(Bytes(src), a + 1, b)]

RECURSIVE LineCommentEnd(_, _)
\* while end < len && bytes[end] != b'\n' && bytes[end] != b'\r' { end += 1 }
LineCommentEnd(bytes, end) ==
  IF end < Len(bytes) /\ bytes[end + 1] # LF /\ bytes[end + 1] # CR
  THEN LineCommentEnd(bytes, end + 1)
  ELSE end

RECURSIVE BlockCommentEnd(_, _)
\* while end + 1 < len { if bytes[end..end+2] == "*/" { end += 2; break } end += 1 }
BlockCommentEnd(bytes, end) ==
  IF end + 1 < Len(bytes)
  THEN IF bytes[end + 1] = STAR /\ bytes[end + 2] = SLASH
       THEN end + 2
       ELSE BlockCommentEnd(bytes, end + 1)
  ELSE end

RECURSIVE StringEnd(_, _, _)
\* while i < len { if bytes[i] == quote && (i == 0 || bytes[i-1] != b'\\') { i += 1; break } i += 1 }
StringEnd(bytes, quote, i) ==
  IF i < Len(bytes)
  THEN IF bytes[i + 1] = quote /\ (i = 0 \/ bytes[i] # BACKSLASH)
       THEN i + 1
       ELSE StringEnd(bytes, quote, i + 1)
  ELSE i

Comment(text, start, end, is_block) ==
  [text |-> text, span |-> <<start, end>>, is_block |-> is_block]

\* The text of a block comment: if end >= start + 4 { source[start+2..end-2] } else { "" }
BlockText(src, start, end) ==
  IF end >= start + 4
  THEN StrSlice(src, start + 2, end - 2)
  ELSE [panic |-> FALSE, text |-> <<>>]

\* One iteration of the loop `while i < len`, from position i: the position
\* it moves to, the comments it pushes, and whether a slice panicked.
ScanIteration(src, i) ==
  LET bytes == Bytes(src)
      len == Len(bytes)
      lineEnd == LineCommentEnd(bytes, i + 2)
      lineText == StrSlice(src, i + 2, lineEnd)
      blockEnd == BlockCommentEnd(bytes, i + 2)
      blockText == BlockText(src, i, blockEnd)
  IN  IF i + 1 < len /\ bytes[i + 1] = SLASH /\ bytes[i + 2] = SLASH
      THEN [panic |-> lineText.panic, i |-> lineEnd,
            pushed |-> <<Comment(lineText.text, i, lineEnd, FALSE)>>]
      ELSE IF i + 1 < len /\ bytes[i + 1] = SLASH /\ bytes[i + 2] = STAR
      THEN [panic |-> blockText.panic, i |-> blockEnd,
            pushed |-> <<Comment(blockText.text, i, blockEnd, TRUE)>>]
      ELSE IF bytes[i + 1] \in {QUOTE, APOS, BACKTICK}
      THEN [panic |-> FALSE, i |-> StringEnd(bytes, bytes[i + 1], i + 1), pushed |-> <<>>]
      ELSE [panic |-> FALSE, i |-> i + 1, pushed |-> <<>>]

NoScan == [pc |-> "none", src |-> <<>>, i |-> 0, comments |-> <<>>]

\* extract_comments(source, ..) is entered: comments = [], i = 0.
ExtractBegin(src) ==
  /\ scan = NoScan
  /\ scan' = [pc |-> "scanning", src |-> src, i |-> 0, comments |-> <<>>]
  /\ UNCHANGED <<lineVars, walkVars, nodeVars, conv, result>>

\* One iteration of `while i < len`.
ExtractIteration ==
  /\ scan.pc = "scanning"
  /\ scan.i < ByteLen(scan.src)
  /\ LET it == ScanIteration(scan.src, scan.i)
     IN  scan' = IF it.panic
                 THEN [scan EXCEPT !.pc = "panic"]
                 ELSE [scan EXCEPT !.i = it.i, !.comments = @ \o it.pushed]
  /\ UNCHANGED <<lineVars, walkVars, nodeVars, conv, result>>

\* i >= len: the loop ends and the comments are returned.
ExtractReturn ==
  /\ scan.pc = "scanning"
  /\ scan.i >= ByteLen(scan.src)
  /\ scan' = [scan EXCEPT !.pc = "returned"]
  /\ UNCHANGED <<lineVars, walkVars, nodeVars, conv, result>>

\* The caller drops the comments, or the exception of a panic.
ExtractDrop ==
  /\ scan.pc \in {"returned", "panic"}
  /\ scan' = NoScan
  /\ UNCHANGED <<lineVars, walkVars, nodeVars, conv, result>>

NextScan ==
  \/ \E src \in ScanSources : ExtractBegin(src)
  \/ ExtractIteration
  \/ ExtractReturn
  \/ ExtractDrop

(***************************************************************************)
(* The ParseResult: its errors are converted from the parser's             *)
(* diagnostics, and is_valid is computed from the errors and the flag.     *)
(***************************************************************************)
\* Bound: the number of diagnostics of one parse.
MaxErrors == 2

Messages == {"Unexpected token", "Unused label"}
Severities == {"error", "warning"}
ErrorSpans == {<<0, 0>>, <<1, 2>>}

ParseError(message, span, severity) ==
  [message |-> message, span |-> span, severity |-> severity]

\* What the parser reports: a message, a severity and a labelled span.
Diagnostics == {ParseError(m, sp, sv) : m \in Messages, sp \in ErrorSpans, sv \in Severities}

ErrorLists == UNION {[1..n -> Diagnostics] : n \in 0..MaxErrors}

\* errors.into_iter().map(|error| ParseError { message: format!("{}", error),
\* span: Span { start: 0, end: 0 }, severity: "error" }).collect()
ConvertErrors(errors) ==
  Listed([k \in DOMAIN errors |-> ParseError(errors[k].message, <<0, 0>>, "error")])

\* is_valid that looks at the errors only.
IsValidErrorsOnly(r) == r.errors = <<>>

\* self.errors.is_empty() && !self.panicked
IsValid(r) == r.errors = <<>> /\ ~r.panicked

NoResult ==
  [made |-> "none", of |-> <<>>, errors |-> <<>>, panicked |-> FALSE,
   read |-> FALSE, valid |-> FALSE]

\* parse() returns Ok(ParseResult { errors: convert_errors(parse_result.errors),
\* panicked: parse_result.panicked, .. }); `of` keeps the diagnostics.
ParseResultFromParser(diagnostics, panicked) ==
  /\ result = NoResult
  /\ result' = [made |-> "parse", of |-> diagnostics, errors |-> ConvertErrors(diagnostics),
                panicked |-> panicked, read |-> FALSE, valid |-> FALSE]
  /\ UNCHANGED <<lineVars, walkVars, nodeVars, conv, scan>>

\* ParseResult(program, errors, comments, panicked) called from Python.
ParseResultNew(errors, panicked) ==
  /\ result = NoResult
  /\ result' = [made |-> "new", of |-> <<>>, errors |-> errors,
                panicked |-> panicked, read |-> FALSE, valid |-> FALSE]
  /\ UNCHANGED <<lineVars, walkVars, nodeVars, conv, scan>>

\* The getter is_valid is read.
GetIsValid ==
  /\ result.made # "none"
  /\ ~result.read
  /\ result' = [result EXCEPT !.read = TRUE, !.valid = IsValid(result)]
  /\ UNCHANGED <<lineVars, walkVars, nodeVars, conv, scan>>

\* The caller drops the ParseResult.
ResultDrop ==
  /\ result.made # "none"
  /\ result' = NoResult
  /\ UNCHANGED <<lineVars, walkVars, nodeVars, conv, scan>>

NextResult ==
  \/ \E diagnostics \in ErrorLists : \E panicked \in BOOLEAN :
       ParseResultFromParser(diagnostics, panicked)
  \/ \E errors \in ErrorLists : \E panicked \in BOOLEAN : ParseResultNew(errors, panicked)
  \/ GetIsValid
  \/ ResultDrop


\* No parse is running.
LineIdle ==
  /\ source = <<>>
  /\ lineOffsets = NoTable
  /\ pc = "idle"
  /\ lookup = NoLookup
  /\ programLines = NoProgram
  /\ node = NoNode
  /\ access = NoAccess
  /\ conv = NoConv
  /\ scan = NoScan
  /\ result = NoResult

\* No walker has been made.
WalkIdle ==
  /\ root = NONE
  /\ queue = [w \in Walkers |-> <<>>]
  /\ out = [w \in Walkers |-> <<>>]
  /\ ret = [w \in Walkers |-> "new"]
  /\ stops = [w \in Walkers |-> 0]

InitLine == LineIdle /\ WalkIdle

NextLine ==
  \/ \E src \in Sources : ParseBegin(src)
  \/ \E offset \in CharBoundaries(source) : ConvertLookup(offset)
  \/ \E src \in Sources : \E offset \in 0..(ByteLen(src) + 1) :
       CallComputeLineNumber(src, offset)
  \/ ConvertProgram
  \/ ParseReturn
  \/ ParseInvalidSourceType
  \/ ConvertStatementFails
  \/ ProgramNewFails

SpecLine == InitLine /\ [][NextLine]_vars

\* A parse that converts nodes, followed by accessor calls on what it returned.
NextNode ==
  \/ \E src \in Sources : access = NoAccess /\ ParseBegin(src)
  \/ \E kind \in ConvertedKinds : \E start, end \in CharBoundaries(source) :
       ConvertNode(kind, start, end)
  \/ ConvertPlaceholder
  \/ ConvertProgram
  \/ ParseReturn
  \/ \E kind \in ConstructibleKinds : \E start, end \in 0..MaxSpan :
       NewNode(kind, start, end)
  \/ HoldProgram
  \/ \E src \in Texts : CallGetText(src)
  \/ \E src \in Texts : CallGetLineRange(src)
  \/ DropResult

SpecNode == InitLine /\ [][NextNode]_vars

SpecConv == InitLine /\ [][NextConv]_vars

SpecScan == InitLine /\ [][NextScan]_vars

SpecResult == InitLine /\ [][NextResult]_vars

\* walk(program) called twice on the same root
InitWalk ==
  /\ root \in Roots
  /\ queue = [w \in Walkers |-> WalkIteratorNew(root)]
  /\ out = [w \in Walkers |-> <<>>]
  /\ ret = [w \in Walkers |-> "new"]
  /\ stops = [w \in Walkers |-> 0]
  /\ LineIdle

NextWalk == \E w \in Walkers : WalkNext(w)

SpecWalk == InitWalk /\ [][NextWalk]_vars

(***************************************************************************)
(* The structure of the heap, read without the walker's role catalog.      *)
(***************************************************************************)
Range(s) == {s[i] : i \in DOMAIN s}

\* The nodes an object holds in any of its fields, singly or in a list.
Held(p) == {o \in Nodes : \E a \in DOMAIN Heap[p].attrs : o \in Range(Heap[p].attrs[a].ids)}

\* Held, the parent of each node (itself when it has none) and the discovered
\* children of each node as tables, computed once.
HeldTable == [p \in Nodes |-> Held(p)] @@ NoAttrs
ParentTable ==
  [n \in Nodes |-> IF \E p \in Nodes : n \in HeldTable[p]
                   THEN CHOOSE p \in Nodes : n \in HeldTable[p]
                   ELSE n] @@ NoAttrs
ChildTable == [o \in Nodes |-> Children(o)] @@ NoAttrs

HasParent(n) == ParentTable[n] # n
ParentOf(n) == ParentTable[n]

\* Number of parent-child edges from r down to n; negative when n is not below r.
RECURSIVE Edges(_, _)
Edges(r, n) ==
  IF n = r THEN 0
  ELSE IF ~HasParent(n) THEN 0 - Cardinality(Objects)
  ELSE 1 + Edges(r, ParentOf(n))

\* n is r or lies below r
Below(r, n) == Edges(r, n) >= 0

\* The nodes a walk from r discovers.
RECURSIVE ReachFrom(_)
ReachFrom(S) ==
  LET T == S \cup UNION {Range(ChildTable[n]) : n \in S}
  IN IF T = S THEN S ELSE ReachFrom(T)

ReachTable == [r \in Nodes |-> ReachFrom({r})] @@ NoAttrs
Reach(r) == ReachTable[r]

YieldedBefore(w, j) == {out[w][i].node : i \in 1..(j - 1)}

\* The queue and the output of a walker that is alone, after k calls of __next__.
RECURSIVE SoloQueue(_, _)
SoloQueue(q, k) ==
  IF k = 0 \/ q = <<>> THEN q
  ELSE SoloQueue(Tail(q) \o ChildrenToAdd(Head(q).node, Head(q).depth), k - 1)

RECURSIVE SoloOut(_, _)
SoloOut(q, k) ==
  IF k = 0 \/ q = <<>> THEN <<>>
  ELSE <<Head(q)>> \o SoloOut(Tail(q) \o ChildrenToAdd(Head(q).node, Head(q).depth), k - 1)

(***************************************************************************)
(* Claims about the walker.                                                *)
(***************************************************************************)

\* C1: every yielded pair (n, d) has d = the number of parent-child edges from
\* the root to n: the root has depth 0, its direct children depth 1, every
\* other node its parent's depth + 1.
C1_DepthIsEdgeCount ==
  \A w \in Walkers : \A i \in DOMAIN out[w] :
    /\ out[w][i].depth = Edges(root, out[w][i].node)
    /\ (out[w][i].node = root) = (out[w][i].depth = 0)
    /\ out[w][i].node # root =>
         \E j \in 1..(i - 1) :
           /\ out[w][j].node = ParentOf(out[w][i].node)
           /\ out[w][i].depth = out[w][j].depth + 1

\* A finished walk that yielded a node three edges below the root.
C1_Witness ==
  /\ queue[1] = <<>>
  /\ \E i \in DOMAIN out[1] : out[1][i].depth = 3 /\ Edges(root, out[1][i].node) = 3

\* C2: in a walk over a tree no node is yielded twice, also not a node held in
\* a role that is probed more than once (consequent, extends, body).
C2_NoNodeTwice ==
  \A w \in Walkers : \A i, j \in DOMAIN out[w] :
    i # j => out[w][i].node # out[w][j].node

\* A finished walk over the if/switch program: consequent is a single node in
\* the IfStatement and a list in the SwitchCase, body is a list in the Program.
C2_Witness ==
  /\ root = 10
  /\ queue[1] = <<>>
  /\ {13, 21} \subseteq {out[1][i].node : i \in DOMAIN out[1]}

\* C3: walk yields nodes in depth-first pre-order: a node comes before its
\* descendants and the subtree of each node is a contiguous run of the output.
C3_PreOrder ==
  \A w \in Walkers : \A i, j, k \in DOMAIN out[w] :
    (i < j /\ j < k /\ Below(out[w][i].node, out[w][k].node))
      => Below(out[w][i].node, out[w][j].node)

C5_Terminates ==
  \A w \in Walkers :
    /\ Len(out[w]) <= Cardinality(Reach(root))
    /\ (queue[w] = <<>>) = (Len(out[w]) = Cardinality(Reach(root)))
    /\ {out[w][i].node : i \in DOMAIN out[w]} \subseteq Reach(root)
    /\ (ret[w] = "stop") = (stops[w] > 0)
    /\ ret[w] = "stop" => queue[w] = <<>> /\ Len(out[w]) = Cardinality(Reach(root))
    /\ ret[w] = "some" => stops[w] = 0 /\ out[w] # <<>>

\* A walker that was pulled twice after it had yielded all its nodes.
C5_Witness ==
  /\ stops[1] = 2 /\ ret[1] = "stop"
  /\ Len(out[1]) = Cardinality(Reach(root)) /\ Len(out[1]) >= 5

\* C6: under any interleaving of pulls on two walkers over the same root, each
\* walker's frontier and output are those of a walker that runs alone and has
\* made the same number of pulls.
C6_Independent ==
  \A w \in Walkers :
    /\ queue[w] = SoloQueue(WalkIteratorNew(root), Len(out[w]))
    /\ out[w] = SoloOut(WalkIteratorNew(root), Len(out[w]))

\* Walker 2 abandoned after one pull while walker 1 ran to its end.
C6_Witness ==
  /\ Len(out[2]) = 1 /\ ret[2] = "some"
  /\ ret[1] = "stop" /\ Len(out[1]) >= 5

\* C7: every item yielded or enqueued is a node with a type; absent and
\* scalar role values are never enqueued, and a node held in a name field is
\* enqueued only when it is a JSXIdentifier or a JSXMemberExpression.
C7_OnlyNodes ==
  \A w \in Walkers : \A e \in Range(queue[w]) \cup Range(out[w]) :
    /\ Heap[e.node].cls = "node"
    /\ Heap[e.node].type # ""
    /\ (e.node # root /\ HasAttr(ParentOf(e.node), "name")
          /\ e.node \in Range(GetAttr(ParentOf(e.node), "name").ids))
         => Heap[e.node].type \in JSXNameTypes

\* A finished walk over the JSX program, which has visited nodes holding a
\* scalar value, a scalar name and None fields, and a node held as a name.
C7_Witness ==
  /\ root = 60
  /\ queue[1] = <<>>
  /\ {62, 63, 66, 71, 76} \subseteq {out[1][i].node : i \in DOMAIN out[1]}

(***************************************************************************)
(* Claims about the line table.                                            *)
(***************************************************************************)

\* C8: the line table is indexed by byte offset: a lookup made during a parse
\* at a byte offset o < len(source) returns 1 + the number of line-feed bytes
\* in source[0..o), for every source, multi-byte characters included.
C8_ByteIndexed ==
  (pc = "converting" /\ lookup.made /\ lookup.offset < ByteLen(source))
    => /\ ~lookup.panic
       /\ lookup.line = 1 + CountLF(SubSeq(Bytes(source), 1, lookup.offset))

\* C9: the Program node of a full-file parse has (start_line, end_line) =
\* (1, number of line terminators in the source + 1), for every source.
C9_RootLines ==
  pc = "program" => programLines = <<1, CountLF(source) + 1>>

\* C10: the installed table holds line 1 at offset 0, and the entry at offset
\* i + 1 exceeds the entry at offset i by 1 when the byte at position i is a
\* line terminator and by 0 otherwise (so it never decreases).
C10_TableSteps ==
  lineOffsets.some =>
    /\ lineOffsets.table # <<>> => lineOffsets.table[1] = 1
    /\ \A i \in 1..(Len(lineOffsets.table) - 1) :
         lineOffsets.table[i + 1] - lineOffsets.table[i]
           = (IF Bytes(source)[i] = LF THEN 1 ELSE 0)

TotalLines(src) == CountLF(src) + 1

\* A (start_line, end_line) pair that is ordered and lies inside the source.
LinesWithin(lines, src) ==
  /\ lines[1] <= lines[2]
  /\ {lines[1], lines[2]} \subseteq 1..TotalLines(src)

\* C12: every node of a converted tree has start_line <= end_line, both
\* between 1 and the number of lines of the parsed source; so has the pair
\* get_line_range answers for it on that source.
C12_LinesOrdered ==
  /\ (node.made = "convert" /\ node.lines # <<>>) => LinesWithin(node.lines, source)
  /\ pc = "program" => LinesWithin(programLines, source)
  /\ (node.made = "convert" /\ access.op = "get_line_range" /\ access.same)
       => (~access.panic /\ LinesWithin(access.range, source))

\* A converted node that starts and ends on different lines of a source
\* holding a multi-byte character, asked for its line range.
C12_Witness ==
  /\ node.made = "convert" /\ node.kind = "IfStatement"
  /\ node.lines # <<>> /\ node.lines[1] < node.lines[2]
  /\ 233 \in Range(source)
  /\ access.op = "get_line_range" /\ access.same

\* The line a conversion function of the parse of `source` looks up at an offset.
LineLookup(offset) ==
  ComputeLineNumber([some |-> TRUE, table |-> BuildLineOffsetTable(source)],
                    source, offset).line

\* C13: every converted node, of every kind, carries start_line and end_line
\* equal to the line lookups at its own span.start and span.end, and its
\* get_line_range returns exactly that pair.
C13_LinesAtSpan ==
  node.made = "convert" =>
    /\ node.lines = <<LineLookup(node.span[1]), LineLookup(node.span[2])>>
    /\ (access.op = "get_line_range" /\ access.same)
         => (~access.panic /\ access.range = node.lines)

\* C14: get_text never fails: on a node of any kind, whatever its span
\* (start > end, beyond the source, taken from another source) and whatever
\* the source it is handed, it returns a substring or the empty string.
C14_GetTextTotal ==
  access.op = "get_text" => ~access.panic

\* C19: every span the converter stores in a node, a placeholder span
\* included, satisfies 0 <= start <= end <= len(source) in bytes, the spans
\* of the parser satisfying it.
C19_SpanWithin ==
  node.made = "convert" =>
    /\ 0 <= node.span[1]
    /\ node.span[1] <= node.span[2]
    /\ node.span[2] <= ByteLen(source)

\* A converted node that is a proper, non-empty suffix of a source holding a
\* multi-byte character.
C19_Witness ==
  /\ node.made = "convert" /\ node.kind \in ConvertedKinds
  /\ 0 < node.span[1] /\ node.span[1] < node.span[2]
  /\ node.span[2] = ByteLen(source)
  /\ 233 \in Range(source)

\* C20: get_text of the Program node of a full-file parse, applied to the
\* parsed source, returns the whole source unchanged.
C20_ProgramText ==
  (node.kind = "Program" /\ node.made = "convert"
     /\ access.op = "get_text" /\ access.same)
    => (~access.panic /\ access.text = Bytes(source))

\* get_text called on the Program of a source of several characters, one of
\* them multi-byte, with that source.
C20_Witness ==
  /\ node.kind = "Program" /\ node.made = "convert"
  /\ access.op = "get_text" /\ access.same
  /\ Len(source) >= 2 /\ 233 \in Range(source)
  /\ access.text # <<>>

\* C18: the thread-local line table lives for exactly one parse call: it is
\* installed, built from the source of the call, while nodes are converted,
\* and it is absent whenever the call has returned, on every exit path.
C18_TableLifetime ==
  /\ pc \in {"converting", "program"}
       => lineOffsets = [some |-> TRUE, table |-> BuildLineOffsetTable(source)]
  /\ pc = "idle" => lineOffsets = NoTable

(***************************************************************************)
(* Claims about the conversion functions.                                  *)
(***************************************************************************)
RECURSIVE NodesIn(_)
\* A converted node and the nodes in its fields.
NodesIn(n) ==
  {n} \cup UNION {UNION {NodesIn(n.fields[role][k]) : k \in DOMAIN n.fields[role]}
                    : role \in DOMAIN n.fields}

\* The nodes of the statements converted so far.
BodyNodes == UNION {NodesIn(conv.body[i]) : i \in DOMAIN conv.body}

Statements == Kids(conv.program, "body")

\* C15: when the conversion of a subordinate child fails, the parent is still
\* produced and its siblings are still converted: a failure below the
\* top-level statements never ends the conversion with an error.
C15_ChildFailureSwallowed ==
  (conv.program # 0 /\ conv.failing # {} /\ conv.failing \cap Range(Statements) = {})
    => /\ conv.last \in {"none", "ok"}
       /\ conv.done => Len(conv.body) = Len(Statements)

\* C16: the converter returns no kind-specific node with a child field left
\* empty although the construct has children there; a construct whose
\* children are not converted becomes a generic node.
C16_GenericOrComplete ==
  conv.failing = {} =>
    \A n \in BodyNodes :
      ~n.generic =>
        \A role \in DOMAIN Ast[n.of].kids :
          Ast[n.of].kids[role] # <<>>
            => (role \in DOMAIN n.fields /\ n.fields[role] # <<>>)

RECURSIVE Unparenthesized(_)
\* The expression inside the parentheses of a construct, if it has any.
Unparenthesized(c) ==
  IF Ast[c].kind = "ParenthesizedExpression"
  THEN Unparenthesized(Kids(c, "expression")[1])
  ELSE c

\* The parts of a JSX element, which the functions of conversion/jsx.rs
\* convert: they are neither statements nor expressions.
JsxParts == {"JSXOpeningElement", "JSXClosingElement", "JSXNamespacedName", "JSXSpreadChild"}

\* Every child node of n that is a statement or an expression has a kind, and
\* the span of Expected(c) for the construct c it was converted from.
ChildrenSpan(n, Expected(_)) ==
  \A role \in DOMAIN n.fields : \A k \in DOMAIN n.fields[role] :
    (k \in DOMAIN Kids(n.of, role) /\ Ast[Kids(n.of, role)[k]].kind \notin JsxParts)
      => /\ n.fields[role][k].type # ""
         /\ n.fields[role][k].span = Ast[Expected(Kids(n.of, role)[k])].span

\* The conversion loop returns, for every statement and expression, a node
\* with a kind and the span of Expected(construct), and converts every sibling.
TotalWithSpan(Expected(_)) ==
  conv.failing = {} =>
    /\ conv.last \in {"none", "ok"}
    /\ \A i \in DOMAIN conv.body :
         /\ conv.body[i].type # ""
         /\ conv.body[i].span = Ast[Expected(Statements[i])].span
    /\ \A n \in BodyNodes : ChildrenSpan(n, Expected)
    /\ conv.done => Len(conv.body) = Len(Statements)

Own(c) == c

ArrowNodes == {n \in BodyNodes : n.type = "ArrowFunctionExpression"}

\* C21: the body of a converted arrow function is the converted expression
\* when the arrow has a concise body and a BlockStatement node when it has a
\* block body; a concise arrow never gets a block as body.
C21_ArrowBody ==
  \A n \in ArrowNodes :
    /\ Len(n.fields.body) = 1
    /\ IF Ast[n.of].expression
       THEN /\ n.fields.body[1].type # "BlockStatement"
            /\ n.fields.body[1].of
                 = Unparenthesized(Kids(Kids(Kids(n.of, "body")[1], "body")[1], "expression")[1])
       ELSE /\ n.fields.body[1].type = "BlockStatement"
            /\ n.fields.body[1].of = Kids(n.of, "body")[1]
            /\ Len(n.fields.body[1].fields.body) = Len(Kids(Kids(n.of, "body")[1], "body"))

\* The parse of `x=>y;()=>{a};` is done: a concise arrow and a block arrow
\* were converted.
C21_Witness ==
  /\ conv.program = 140 /\ conv.done
  /\ \E n \in ArrowNodes : Ast[n.of].expression
  /\ \E n \in ArrowNodes : ~Ast[n.of].expression

RECURSIVE LiteralEnd(_, _, _)
\* The position after the quote that closes the string literal whose content
\* starts at i, a backslash escaping the character after it; -1 when no quote
\* closes it.
LiteralEnd(bytes, quote, i) ==
  IF i >= Len(bytes) THEN -1
  ELSE IF bytes[i + 1] = BACKSLASH THEN LiteralEnd(bytes, quote, i + 2)
  ELSE IF bytes[i + 1] = quote THEN i + 1
  ELSE LiteralEnd(bytes, quote, i + 1)

RECURSIVE StringLiterals(_, _)
\* The spans of the string literals of a source from position i on, opening
\* quote to closing quote, as a lexer finds them: a quote inside a comment
\* opens no literal.
StringLiterals(bytes, i) ==
  IF i >= Len(bytes) THEN {}
  ELSE IF i + 1 < Len(bytes) /\ bytes[i + 1] = SLASH /\ bytes[i + 2] = SLASH
  THEN StringLiterals(bytes, LineCommentEnd(bytes, i + 2))
  ELSE IF i + 1 < Len(bytes) /\ bytes[i + 1] = SLASH /\ bytes[i + 2] = STAR
  THEN IF \E e \in (i + 2)..(Len(bytes) - 2) : bytes[e + 1] = STAR /\ bytes[e + 2] = SLASH
       THEN StringLiterals(bytes, BlockCommentEnd(bytes, i + 2))
       ELSE {}
  ELSE IF bytes[i + 1] \in {QUOTE, APOS, BACKTICK}
  THEN LET e == LiteralEnd(bytes, bytes[i + 1], i + 1)
       IN  IF e = -1 THEN {} ELSE {<<i, e>>} \cup StringLiterals(bytes, e)
  ELSE StringLiterals(bytes, i + 1)

Overlap(a, b) == a[1] < b[2] /\ b[1] < a[2]

\* C22: extract_comments returns no comment whose span overlaps a string
\* literal: a // or /* between the opening and the closing quote of a string,
\* which may contain backslash escapes, produces no comment.
C22_NoCommentInString ==
  \A k \in DOMAIN scan.comments : \A lit \in StringLiterals(Bytes(scan.src), 0) :
    ~Overlap(scan.comments[k].span, lit)

\* The source slice at the span of a comment.
SpanSlice(c) == SubSeq(Bytes(scan.src), c.span[1] + 1, c.span[2])

\* C23: the span of every comment returned covers the comment with its
\* delimiters and the text is the content without them: the slice at the span
\* is "//" + text for a line comment and "/*" + text + "*/" for a block
\* comment, a block comment without closing delimiter included.
C23_SpanAndText ==
  scan.pc = "returned" =>
    \A k \in DOMAIN scan.comments :
      LET c == scan.comments[k]
      IN  IF c.is_block
          THEN SpanSlice(c) = <<SLASH, STAR>> \o c.text \o <<STAR, SLASH>>
          ELSE /\ SpanSlice(c) = <<SLASH, SLASH>> \o c.text
               /\ c.span[2] < ByteLen(scan.src) => Bytes(scan.src)[c.span[2] + 1] \in {LF, CR}

\* The comments are in source order, their spans do not overlap, and each has
\* start < end <= len(source).
CommentsOrdered ==
  /\ \A k \in DOMAIN scan.comments :
       /\ scan.comments[k].span[1] < scan.comments[k].span[2]
       /\ scan.comments[k].span[2] <= ByteLen(scan.src)
  /\ \A j, k \in DOMAIN scan.comments :
       j < k => scan.comments[j].span[2] <= scan.comments[k].span[1]

\* C30: extract_comments fails on no source, multi-byte characters and
\* unterminated comments and strings included; the position never exceeds the
\* length of the source and the comments come in source order with spans that
\* do not overlap.
C30_ExtractTotal ==
  /\ scan.pc # "panic"
  /\ scan.i <= ByteLen(scan.src)
  /\ CommentsOrdered

\* C24: is_valid is true exactly when the errors list is empty and the
\* panicked flag is false.
C24_IsValid ==
  result.read => (result.valid <=> (Len(result.errors) = 0 /\ result.panicked = FALSE))

\* is_valid was read on a result without errors whose parser panicked.
C24_Witness ==
  result.read /\ result.errors = <<>> /\ result.panicked /\ ~result.valid

\* C25: convert_errors returns one ParseError per diagnostic, in the same
\* order, each with the message, the severity and the span of its diagnostic.
C25_ErrorsCarried ==
  result.made = "parse" =>
    /\ Len(result.errors) = Len(result.of)
    /\ \A k \in DOMAIN result.of :
         /\ result.errors[k].message = result.of[k].message
         /\ result.errors[k].severity = result.of[k].severity
         /\ result.errors[k].span = result.of[k].span

\* C26: a walk from the root yields every node of the tree: every node held
\* in any field of a yielded node, singly or in a list, is yielded as well
\* (label, types, type_name, object, argument and the like included).
C26_EveryHeldYielded ==
  \A w \in Walkers :
    queue[w] = <<>> =>
      \A i \in DOMAIN out[w] :
        Held(out[w][i].node) \subseteq {out[w][j].node : j \in DOMAIN out[w]}

\* The position of x in the sequence s.
IndexOf(s, x) == CHOOSE i \in DOMAIN s : s[i] = x

\* The field of p that holds c.
RoleOf(p, c) == CHOOSE a \in DOMAIN Heap[p].attrs : c \in Range(Heap[p].attrs[a].ids)

\* Where the claim places a child c of p: the phase (single-child roles, list
\* roles, body, extends list, consequent list, JSX name), the place of the
\* role in its role list, and the place of c in its list.
CatalogPlace(p, c) ==
  LET a == RoleOf(p, c)
      v == Heap[p].attrs[a]
  IN  IF a = "body" THEN <<3, 0, IndexOf(v.ids, c)>>
      ELSE IF a = "name" THEN <<6, 0, 0>>
      ELSE IF v.k = "one" THEN <<1, IndexOf(NodeAttrs, a), 0>>
      ELSE IF a = "extends" THEN <<4, 0, IndexOf(v.ids, c)>>
      ELSE IF a = "consequent" THEN <<5, 0, IndexOf(v.ids, c)>>
      ELSE <<2, IndexOf(ListAttrs, a), IndexOf(v.ids, c)>>

PlaceBefore(x, y) ==
  \/ x[1] < y[1]
  \/ x[1] = y[1] /\ x[2] < y[2]
  \/ x[1] = y[1] /\ x[2] = y[2] /\ x[3] < y[3]

\* The nodes a walker has discovered, in the order it yields them.
Discovered(w) == [i \in DOMAIN (out[w] \o queue[w]) |-> (out[w] \o queue[w])[i].node] @@ <<>>

\* C27: the children of one node are enqueued, and so yielded, in catalog
\* order and not in source order: single-child roles in role-list order (the
\* consequent and alternate of an IfStatement before its test), then list
\* roles in role-list order with their elements in list order, then body, then
\* the extends list, then the consequent list, then the JSX name.
C27_CatalogOrder ==
  \A w \in Walkers : \A i, j \in DOMAIN Discovered(w) :
    LET c == Discovered(w)[i]
        d == Discovered(w)[j]
    IN  (c # d /\ c # root /\ d # root /\ ParentOf(c) = ParentOf(d))
          => ((i < j) <=> PlaceBefore(CatalogPlace(ParentOf(c), c), CatalogPlace(ParentOf(d), d)))

\* A finished walk from the IfStatement, which yielded its consequent, its
\* alternate and its test in that order.
C27_Witness ==
  root = 11 /\ queue[1] = <<>> /\ SubSeq(Discovered(1), 1, 4) = <<11, 13, 15, 12>>

\* C28: the two lookup paths of compute_line_number agree: for every source
\* and every offset in [0, len(source)], the lookup in the installed table and
\* the scanning fallback return the same line.
C28_PathsAgree ==
  (pc = "converting" /\ lineOffsets.some /\ lookup.made /\ lookup.offset <= ByteLen(source))
    => /\ ~lookup.panic
       /\ ~ScanLine(source, lookup.offset).panic
       /\ lookup.line = ScanLine(source, lookup.offset).line

\* The span a lies within the span b.
Within(a, b) == b[1] <= a[1] /\ a[2] <= b[2]

\* C29: in every converted tree the span of each child lies within the span
\* of its parent, the placeholder nodes for JSX namespaced names, this-names,
\* complex member objects and spread children included.
C29_ChildWithinParent ==
  \A n \in BodyNodes : \A role \in DOMAIN n.fields : \A k \in DOMAIN n.fields[role] :
    Within(n.fields[role][k].span, n.span)

====
